---- MODULE Spec2Model ----
(***************************************************************************)
(* Model of the time stamped, time indexed data container TsIdxData        *)
(* (src/TsIdxData.py): its constructor, which cleans, sorts, filters and   *)
(* clips one instrument's rows and infers the sampling period, and its     *)
(* resample method.                                                        *)
(*                                                                         *)
(* Time is counted in ticks since midnight of day 0; TicksPerMs ticks make *)
(* one millisecond, so that timestamps finer than a millisecond exist and  *)
(* the constructor's rounding to the millisecond does something.  Values   *)
(* are cells [k, n, d]: a float n/d (k = "num"), NaN, +infinity, the       *)
(* square root of n/d (a standard deviation), or a text that the float     *)
(* conversion left as text.                                                *)
(***************************************************************************)
EXTENDS Integers, Sequences, FiniteSets, TLC

VARIABLES
    src,        \* the constructor's arguments (df, valueQuery, startQuery, endQuery)
    pc,         \* "new": not constructed; "built"; "failed": the constructor raised
    df,         \* self._df: the rows [ts, c], c the cells of the row's columns
    columns,    \* the names of the value columns of self._df, in order
    timeOffset, \* self._timeOffset in ticks; NaN stands for np.NaN
    dfSorted,   \* self._df as it is after line 352 (sort_index)
    dfQueried,  \* self._df as it is after line 362 (the value query)
    call,       \* the last call made on the object and how it ended
    msgs,       \* the messages the last call printed
    calls,      \* the number of resample calls made so far
    al          \* the run of the main script that aligns the instruments (ftArchPostProc.py)

vars == <<src, pc, df, columns, timeOffset, dfSorted, dfQueried, call, msgs, calls, al>>

-----------------------------------------------------------------------------
(* Bounds of the model *)

TicksPerMs == 2
MaxRows == 3
MaxCalls == 2
MaxGrid == 5
MaxInsts == 2

-----------------------------------------------------------------------------
(* Time *)

Ms == TicksPerMs
Sec == 1000 * Ms
Day == 86400 * Sec

\* np.NaN as a period, pd.NaT as a timestamp, None as a bound or a frequency:
\* no tick count is negative
NaN == -1
NaT == -1
None == -1

\* floor of t to a multiple of p (p > 0), t >= 0
FloorTo(t, p) == t - (t % p)

\* Series.dt.round('L'): to the nearest millisecond, a tie to the even one
RoundMs(t) ==
    LET lo == FloorTo(t, Ms)
        r == t - lo
    IN  IF 2 * r < Ms THEN lo
        ELSE IF 2 * r > Ms THEN lo + Ms
        ELSE IF (lo \div Ms) % 2 = 0 THEN lo ELSE lo + Ms

-----------------------------------------------------------------------------
(* Cells *)

Num(n) == [k |-> "num", n |-> n, d |-> 1]
NanCell == [k |-> "nan", n |-> 0, d |-> 1]
InfCell == [k |-> "inf", n |-> 1, d |-> 1]
\* texts of the source's value column: a number, "inf", and a text that is no number
TxtNum(n) == [k |-> "str", n |-> n, d |-> 1]
TxtInf == [k |-> "strinf", n |-> 1, d |-> 1]
TxtBad == [k |-> "strbad", n |-> 0, d |-> 1]

IsText(c) == c.k \in {"str", "strinf", "strbad"}
IsFiniteFloat(c) == c.k \in {"num", "sqrt"}

\* float(text); TxtBad has none
ParseFloat(c) ==
    CASE c.k = "str" -> Num(c.n)
      [] c.k = "strinf" -> InfCell
      [] OTHER -> c

Row(t, c) == [ts |-> t, c |-> <<c>>]
Val(r) == r.c[1]

Range(s) == {s[i] : i \in DOMAIN s}
TsOf(s) == [i \in DOMAIN s |-> s[i].ts]
IsSortedTs(s) == \A i \in 1..(Len(s) - 1) : s[i].ts <= s[i + 1].ts
StrictlyIncreasing(s) == \A i \in 1..(Len(s) - 1) : s[i].ts < s[i + 1].ts

-----------------------------------------------------------------------------
(* The constructor, TsIdxData.__init__ *)

\* lines 300-302: astype('float', errors='ignore') converts the whole column, or,
\* when one cell has no float, leaves the whole column as it is
AstypeFloat(rows) ==
    IF \E i \in DOMAIN rows : Val(rows[i]).k = "strbad"
    THEN rows
    ELSE [i \in DOMAIN rows |-> Row(rows[i].ts, ParseFloat(Val(rows[i])))]

\* line 306: dropna(subset=[yName])
DropNaValue(rows) == SelectSeq(rows, LAMBDA r : Val(r).k # "nan")

\* lines 320-335: to_datetime with the source format and errors='raise'; when one
\* text does not match, every text is parsed again leniently with errors='coerce'
\* and a text that is no date becomes NaT.  A timestamp cell is [k, t]: k = "fmt"
\* (matches the format), "len" (only the lenient parse reads it), "junk", or "dt"
\* (already a datetime).
ParseTs(cell) == IF cell.k = "junk" THEN NaT ELSE cell.t
ToDatetime(rows) == [i \in DOMAIN rows |-> [rows[i] EXCEPT !.ts = ParseTs(rows[i].ts)]]
StrictParseFails(rows) == \E i \in DOMAIN rows : rows[i].ts.k # "fmt"

\* line 339: dropna(subset=[tsName])
DropNaT(rows) == SelectSeq(rows, LAMBDA r : r.ts # NaT)

\* line 343: dt.round('L')
RoundTs(rows) == [i \in DOMAIN rows |-> [rows[i] EXCEPT !.ts = RoundMs(rows[i].ts)]]

\* lines 345-346: drop_duplicates(subset=, keep='last', inplace=True) is called on
\* the timestamp column taken out of the frame, a Series.  Series.drop_duplicates
\* has no subset parameter, so the call raises TypeError; were it accepted, the
\* shortened column is not written back and the frame keeps every row.  Both are
\* outcomes of the model: DropDupOutcomes is what the call may do.
DropDupOutcomes == {"raises", "frame unchanged"}
DropDuplicates(rows) == rows

\* line 352: sort_index() returns at once when the index is already monotonic;
\* otherwise it sorts with quicksort, which is not stable: rows of one timestamp
\* come out in any order
ApplyPerm(rows, p) == [i \in DOMAIN rows |-> rows[p[i]]]
SortIndex(rows) ==
    IF IsSortedTs(rows) THEN {rows}
    ELSE {ApplyPerm(rows, p) : p \in {q \in Permutations(DOMAIN rows) : IsSortedTs(ApplyPerm(rows, q))}}

\* lines 355-362: DataFrame.query with "val" replaced by the value column's name.
\* A value query is [k, lo, hi]: k = "none" (no query), "range" (the text
\* "val >= lo and val <= hi") or "malformed".  The query raises, and is then
\* ignored, when its text is no expression, when the column's name put in for
\* "val" is no identifier, and when the column holds text (text >= number).
Passes(c, vq) ==
    CASE c.k = "num" -> vq.lo * c.d <= c.n /\ c.n <= vq.hi * c.d
      [] OTHER -> FALSE
QueryRaises(rows, vq, yNameIdent) ==
    \/ vq.k = "malformed"
    \/ ~yNameIdent
    \/ \E i \in DOMAIN rows : IsText(Val(rows[i]))
Query(rows, vq, yNameIdent) ==
    IF vq.k = "none" \/ QueryRaises(rows, vq, yNameIdent)
    THEN rows
    ELSE SelectSeq(rows, LAMBDA r : Passes(Val(r), vq))

\* lines 176-199: startQuery.  A bound is [k, t]: k = "none", "date" (a text
\* with no time of day, t its midnight), "datetime" (a text with a time of day, or
\* a datetime object, t its instant) or "invalid" (a text that is no date)
StartBound(q) == IF q.k \in {"none", "invalid"} THEN None ELSE q.t

\* lines 202-243: endQuery; a time of day of midnight is taken to mean that no
\* time was given and is replaced by 23:59:59.999999, the last tick of that day
EndOfDay(t) == t + Day - 1
EndBound(q) ==
    IF q.k \in {"none", "invalid"} THEN None
    ELSE IF q.t % Day = 0 THEN EndOfDay(q.t) ELSE q.t

\* line 366: self._df.loc[startQuery : endQuery], a label slice of the sorted
\* index: from the first row at or after the start to the last row at or before
\* the end; None leaves that side open
CountBefore(rows, t) == Cardinality({i \in DOMAIN rows : rows[i].ts < t})
CountUpTo(rows, t) == Cardinality({i \in DOMAIN rows : rows[i].ts <= t})
LocSlice(rows, lo, hi) ==
    SubSeq(rows, (IF lo = None THEN 0 ELSE CountBefore(rows, lo)) + 1,
                 IF hi = None THEN Len(rows) ELSE CountUpTo(rows, hi))

\* line 374: pd.infer_freq(index): the common gap of an index of at least three
\* distinct timestamps that are evenly spaced; otherwise nothing (it raises on
\* fewer than three, which the caller turns into None)
InferFreq(idx) ==
    IF Len(idx) < 3 THEN None
    ELSE IF \E i \in 1..(Len(idx) - 1) : idx[i + 1] - idx[i] # idx[2] - idx[1] THEN None
    ELSE IF idx[2] - idx[1] = 0 THEN None
    ELSE idx[2] - idx[1]

\* a variant that always takes the first two rows, to compare with ManualFreq
ManualFreqFirstGap(idx) ==
    IF Len(idx) >= 2 THEN idx[2] - idx[1] ELSE Sec
\* lines 381-395: the manual frequency
ManualFreq(idx) ==
    IF Len(idx) >= 4 THEN idx[4] - idx[3]
    ELSE IF Len(idx) >= 2 THEN idx[2] - idx[1]
    ELSE Sec

\* lines 401-404: a frequency of zero becomes one second
ZeroFreqToSecond(f) == IF f = 0 THEN Sec ELSE f

\* lines 372-407
Frequency(idx) ==
    LET inferred == InferFreq(idx)
    IN  ZeroFreqToSecond(IF inferred = None THEN ManualFreq(idx) ELSE inferred)

\* lines 298-306: the source rows with the value column made float and its NaN dropped
CleanValues(rows) == DropNaValue(AstypeFloat(rows))

\* lines 310-343: unless the index already is the datetime index named tsName,
\* the timestamps are parsed (a text column), NaT rows dropped and the rest rounded
CleanTimestamps(form, rows) ==
    IF form = "dtindex" THEN ToDatetime(rows)
    ELSE RoundTs(DropNaT(ToDatetime(rows)))

\* the messages of the constructor
CtorMsgs(form, rows, vq, yNameIdent, sorted, sq, eq, clipped) ==
    (IF form = "text" /\ StrictParseFails(rows) THEN {"timestamp conversion problem"} ELSE {})
    \cup (IF vq.k # "none" /\ QueryRaises(sorted, vq, yNameIdent) THEN {"invalid query"} ELSE {})
    \cup (IF sq.k = "invalid" THEN {"invalid start query"} ELSE {})
    \cup (IF eq.k = "invalid" THEN {"invalid end query"} ELSE {})
    \cup (IF InferFreq(TsOf(clipped)) = None THEN {"manual frequency"} ELSE {})
    \cup (IF InferFreq(TsOf(clipped)) = None /\ Len(clipped) < 2 THEN {"not enough data"} ELSE {})
    \cup (IF InferFreq(TsOf(clipped)) = None /\ ManualFreq(TsOf(clipped)) = 0 THEN {"same timestamp"} ELSE {})

NoArg == [k |-> "none", p |-> 0]
NoStats == [k |-> "none", s |-> <<>>]
Period(p) == [k |-> "period", p |-> p]
Str(s) == [k |-> "str", s |-> s]
NoCall == [op |-> "none", arg |-> NoArg, stats |-> NoStats, branch |-> "none", end |-> "none"]
\* no run of the main script
NoAlign == [pc |-> "idle"]

\* lines 248-266 and 272-294: no source frame, or one without the named columns:
\* an empty frame and a period of NaN
ConstructEmpty ==
    /\ src.form = "none"
    /\ pc' = "built"
    /\ df' = <<>>
    /\ dfSorted' = <<>>
    /\ dfQueried' = <<>>
    /\ timeOffset' = NaN
    /\ msgs' = {}

\* lines 296-413
ConstructFrom ==
    /\ src.form # "none"
    /\ LET cleaned == CleanTimestamps(src.form, CleanValues(src.rows))
       IN  \E outcome \in (IF src.form = "dtindex" THEN {"frame unchanged"} ELSE DropDupOutcomes) :
            IF outcome = "raises"
            THEN /\ pc' = "failed"
                 /\ df' = <<>>
                 /\ dfSorted' = <<>>
                 /\ dfQueried' = <<>>
                 /\ timeOffset' = NaN
                 /\ msgs' = {"TypeError"}
            ELSE \E sorted \in SortIndex(DropDuplicates(cleaned)) :
                    LET queried == Query(sorted, src.vq, src.yNameIdent)
                        clipped == LocSlice(queried, StartBound(src.startQuery), EndBound(src.endQuery))
                    IN  /\ pc' = "built"
                        /\ dfSorted' = sorted
                        /\ dfQueried' = queried
                        /\ df' = clipped
                        /\ timeOffset' = Frequency(TsOf(clipped))
                        /\ msgs' = CtorMsgs(src.form, CleanValues(src.rows), src.vq, src.yNameIdent,
                                            sorted, src.startQuery, src.endQuery, clipped)

\* TsIdxData.__init__
Construct ==
    /\ pc = "new"
    /\ (ConstructEmpty \/ ConstructFrom)
    /\ columns' = <<"value">>
    /\ call' = [NoCall EXCEPT !.op = "init", !.end = IF pc' = "built" THEN "ok" ELSE "raised"]
    /\ UNCHANGED <<src, calls, al>>

-----------------------------------------------------------------------------
(* Arithmetic on cells, as the aggregations of a resample need it *)

RECURSIVE Gcd(_, _)
Gcd(a, b) == IF b = 0 THEN a ELSE Gcd(b, a % b)
Abs(a) == IF a < 0 THEN 0 - a ELSE a

\* the float n/d in lowest terms
Frac(n, d) ==
    LET g == Gcd(Abs(n), d)
    IN  [k |-> "num", n |-> n \div g, d |-> d \div g]
\* the square root of n/d, n/d > 0 (a standard deviation); of 0 it is the float 0
Sqrt(n, d) ==
    IF n = 0 THEN Num(0)
    ELSE LET g == Gcd(Abs(n), d) IN [k |-> "sqrt", n |-> n \div g, d |-> d \div g]
\* a finite float whose value the model does not follow
RealCell == [k |-> "real", n |-> 0, d |-> 1]

\* the order of texts: digits before letters, "bad" before "inf"
TextRank(c) == CASE c.k = "str" -> c.n [] c.k = "strbad" -> 1000 [] OTHER -> 1001

\* the square of a float cell, as the fraction <<n, d>>; no value is negative
SqN(c) == IF c.k = "sqrt" THEN c.n ELSE c.n * c.n
SqD(c) == IF c.k = "sqrt" THEN c.d ELSE c.d * c.d

\* c1 <= c2 for cells of one column: floats by their squares, +infinity above
\* them, texts by TextRank
CellLe(c1, c2) ==
    CASE IsText(c1) /\ IsText(c2) -> TextRank(c1) <= TextRank(c2)
      [] c2.k = "inf" -> TRUE
      [] c1.k = "inf" -> FALSE
      [] OTHER -> SqN(c1) * SqD(c2) <= SqN(c2) * SqD(c1)

RECURSIVE SumN(_), ProdD(_)
\* the product of the denominators of a sequence of "num" cells
ProdD(cs) == IF cs = <<>> THEN 1 ELSE Head(cs).d * ProdD(Tail(cs))
\* the numerators over the denominator dd, summed
SumOver(cs, dd) ==
    LET RECURSIVE S(_)
        S(x) == IF x = <<>> THEN 0 ELSE Head(x).n * (dd \div Head(x).d) + S(Tail(x))
    IN  S(cs)
SumSqOver(cs, dd) ==
    LET RECURSIVE S(_)
        S(x) == IF x = <<>> THEN 0
                ELSE (Head(x).n * (dd \div Head(x).d)) * (Head(x).n * (dd \div Head(x).d)) + S(Tail(x))
    IN  S(cs)
SumN(cs) == SumOver(cs, ProdD(cs))

Has(cs, kinds) == \E i \in DOMAIN cs : cs[i].k \in kinds

\* a variant that takes the first value, to compare with AggLast
AggFirst(cs) == IF cs = <<>> THEN NanCell ELSE cs[1]
\* last(): the last value of the bin that is not NaN
AggLast(cs) == IF cs = <<>> THEN NanCell ELSE cs[Len(cs)]

\* min() and max()
AggMin(cs) ==
    IF cs = <<>> THEN NanCell
    ELSE IF Has(cs, {"real"}) THEN RealCell
    ELSE CHOOSE c \in Range(cs) : \A x \in Range(cs) : CellLe(c, x)
AggMax(cs) ==
    IF cs = <<>> THEN NanCell
    ELSE IF Has(cs, {"real"}) THEN RealCell
    ELSE CHOOSE c \in Range(cs) : \A x \in Range(cs) : CellLe(x, c)

\* mean()
AggMean(cs) ==
    IF cs = <<>> THEN NanCell
    ELSE IF Has(cs, {"inf"}) THEN InfCell
    ELSE IF Has(cs, {"sqrt", "real"}) THEN RealCell
    ELSE Frac(SumN(cs), ProdD(cs) * Len(cs))

\* a variant with ddof = 0, the population standard deviation, to compare with AggStd
AggStdPopulation(cs) ==
    IF cs = <<>> \/ Has(cs, {"inf"}) THEN NanCell
    ELSE IF Has(cs, {"sqrt", "real"}) THEN RealCell
    ELSE LET n == Len(cs)
             dd == ProdD(cs)
             s1 == SumOver(cs, dd)
             s2 == SumSqOver(cs, dd)
         IN  Sqrt(n * s2 - s1 * s1, n * n * dd * dd)
\* std(): ddof = 1, the sample standard deviation; NaN for fewer than two values
AggStd(cs) ==
    IF Len(cs) < 2 \/ Has(cs, {"inf"}) THEN NanCell
    ELSE IF Has(cs, {"sqrt", "real"}) THEN RealCell
    ELSE LET n == Len(cs)
             dd == ProdD(cs)
             s1 == SumOver(cs, dd)
             s2 == SumSqOver(cs, dd)
         IN  Sqrt(n * s2 - s1 * s1, n * (n - 1) * dd * dd)

-----------------------------------------------------------------------------
(* TsIdxData.resample *)

\* A resample argument is [k, p]: k = "none" (None), "invalid" (a text that is no
\* offset) or "period" (an offset of p ticks; p may be zero or negative).
\* a variant that falls back to two seconds, to compare with ResampleTo
ResampleToTwoSeconds(arg) == IF arg.k = "period" THEN arg.p ELSE 2 * Sec
\* lines 450-461: None and an invalid argument mean one second
ResampleTo(arg) == IF arg.k = "period" THEN arg.p ELSE Sec

\* pandas anchors the bins of a resample at midnight of the first row's day
Anchor(t) == FloorTo(t, Day)
FirstTs(rows) == rows[1].ts
LastTs(rows) == rows[Len(rows)].ts

\* the first column of the frame: self._df.iloc[:, 0]
Col0(r) == r.c[1]

\* Series.resample(T).pad(): closed and labelled on the left, the bins run from
\* the first row's timestamp floored to T to the last row's floored to T
UpGrid(rows, T) ==
    LET a == Anchor(FirstTs(rows))
        g0 == FirstTs(rows) - ((FirstTs(rows) - a) % T)
        gl == LastTs(rows) - ((LastTs(rows) - a) % T)
        count == (gl - g0) \div T + 1
    IN  [i \in 1..count |-> g0 + (i - 1) * T]

\* pad: the value of the last row at or before g, NaN when there is none
Pad(rows, g) ==
    LET at == {i \in DOMAIN rows : rows[i].ts <= g}
    IN  IF at = {} THEN NanCell
        ELSE Col0(rows[CHOOSE i \in at : \A j \in at : j <= i])

\* lines 489-490: an empty frame resamples to an empty frame whatever T is
Upsampled(rows, T) ==
    IF rows = <<>> THEN <<>>
    ELSE LET grid == UpGrid(rows, T)
         IN  [i \in DOMAIN grid |-> Row(grid[i], Pad(rows, grid[i]))]

\* the pad raises on rows that are there when T is not positive (the bin edges
\* cannot be computed) and when one timestamp occurs twice (reindex with a
\* method needs a unique index)
\* a variant that pads over a repeated timestamp, to compare with UpsampleRaises
UpsampleRaisesOnPeriod(rows, T) == rows # <<>> /\ T <= 0
UpsampleRaises(rows, T) == rows # <<>> /\ (T <= 0 \/ ~StrictlyIncreasing(rows))

\* lines 513-535: the stat flags.  A stats argument is [k, s]: k = "none" (None)
\* or "str", s its characters
Lower(ch) ==
    CASE ch = "V" -> "v" [] ch = "I" -> "i" [] ch = "X" -> "x" [] ch = "M" -> "m"
      [] ch = "A" -> "a" [] ch = "S" -> "s" [] ch = "D" -> "d" [] OTHER -> ch
\* a variant that does not lower the case, to compare with StatsText
StatsTextAsGiven(stats) == IF stats.k = "none" THEN <<>> ELSE stats.s
StatsText(stats) == IF stats.k = "none" THEN <<>> ELSE [i \in DOMAIN stats.s |-> Lower(stats.s[i])]
Find(s, ch) == \E i \in DOMAIN s : s[i] = ch
StatFlags(stats) ==
    LET s == StatsText(stats)
        val == Find(s, "v")
        min == Find(s, "i")
        max == Find(s, "x")
        mean == Find(s, "m") \/ Find(s, "a")
        std == Find(s, "s") \/ Find(s, "d")
    IN  [val |-> val, min |-> min, max |-> max,
         mean |-> mean \/ ~(val \/ min \/ max \/ mean \/ std), std |-> std]

\* lines 537-559: the columns of the resampled frame, in this order
StatColumns(f) ==
    (IF f.val THEN <<"value">> ELSE <<>>) \o (IF f.min THEN <<"min">> ELSE <<>>)
    \o (IF f.max THEN <<"max">> ELSE <<>>) \o (IF f.mean THEN <<"mean">> ELSE <<>>)
    \o (IF f.std THEN <<"std">> ELSE <<>>)

\* resample(T, label='right', closed='right'): the bins (g - T, g], g running
\* from the first row's timestamp raised to a multiple of T to the last row's
DownLabels(rows, T) ==
    LET a == Anchor(FirstTs(rows))
        fo == (FirstTs(rows) - a) % T
        lo == (LastTs(rows) - a) % T
        fresult == IF fo > 0 THEN FirstTs(rows) - fo ELSE FirstTs(rows) - T
        lresult == IF lo > 0 THEN LastTs(rows) + (T - lo) ELSE LastTs(rows)
        count == (lresult - fresult) \div T
    IN  [i \in 1..count |-> fresult + i * T]

\* a variant closed and labelled on the left, to compare with BinCells
BinCellsLeftClosed(rows, g, T) ==
    LET in == SelectSeq(rows, LAMBDA r : g - T <= r.ts /\ r.ts < g /\ Col0(r).k # "nan")
    IN  [i \in DOMAIN in |-> Col0(in[i])]
\* the values of the bin labelled g that are not NaN, in the rows' order
BinCells(rows, g, T) ==
    LET in == SelectSeq(rows, LAMBDA r : g - T < r.ts /\ r.ts <= g /\ Col0(r).k # "nan")
    IN  [i \in DOMAIN in |-> Col0(in[i])]

Agg(col, cs) ==
    CASE col = "value" -> AggLast(cs)
      [] col = "min" -> AggMin(cs)
      [] col = "max" -> AggMax(cs)
      [] col = "mean" -> AggMean(cs)
      [] OTHER -> AggStd(cs)

\* lines 571-595
Downsampled(rows, T, cols) ==
    IF rows = <<>> THEN <<>>
    ELSE LET labels == DownLabels(rows, T)
         IN  [i \in DOMAIN labels |->
                [ts |-> labels[i],
                 c |-> [j \in DOMAIN cols |-> Agg(cols[j], BinCells(rows, labels[i], T))]]]

\* the aggregation of a column of text: mean and std raise (no numeric types to
\* aggregate); min and max fall back to comparing the texts, or raise
TextColumn(rows) == \E i \in DOMAIN rows : IsText(Col0(rows[i]))
DownsampleEnds(rows, f) ==
    IF TextColumn(rows) /\ (f.mean \/ f.std) THEN {"raised"}
    ELSE IF TextColumn(rows) /\ (f.min \/ f.max) THEN {"raised", "ok"}
    ELSE {"ok"}

\* line 471: "stats is not None or not stats"
StatsGiven(stats) == stats.k # "none" \/ (stats.k = "none" \/ stats.s = <<>>)

ArgMsgs(arg) ==
    CASE arg.k = "none" -> {"no resample period"}
      [] arg.k = "invalid" -> {"invalid resample period"}
      [] OTHER -> {}

\* the rows a resample to T makes of the frame, had it no bound
UpCount(rows, T) == IF rows = <<>> THEN 0 ELSE Len(UpGrid(rows, T))
DownCount(rows, T) == IF rows = <<>> THEN 0 ELSE Len(DownLabels(rows, T))

Ended(arg, stats, branch, end) ==
    call' = [op |-> "resample", arg |-> arg, stats |-> stats, branch |-> branch, end |-> end]

\* line 463 with a period of NaN: an offset does not compare with a float, the
\* comparison raises out of resample
ResampleNoPeriod(arg, stats) ==
    /\ timeOffset = NaN
    /\ Ended(arg, stats, "none", "raised")
    /\ msgs' = ArgMsgs(arg) \cup {"TypeError"}
    /\ UNCHANGED <<df, columns, timeOffset>>

\* a variant whose comparison is <=, to compare with ResampleUp: a target equal
\* to the period is padded too
ResampleUpOrEqual(arg, stats) ==
    LET T == ResampleTo(arg)
        warned == ArgMsgs(arg) \cup (IF StatsGiven(stats) THEN {"stats ignored"} ELSE {})
    IN  /\ timeOffset # NaN
        /\ T <= timeOffset
        /\ ~UpsampleRaises(df, T)
        /\ UpCount(df, T) <= MaxGrid
        /\ Ended(arg, stats, "up", "done")
        /\ msgs' = warned \cup {"upsampled"}
        /\ df' = Upsampled(df, T)
        /\ columns' = <<"value">>
        /\ timeOffset' = T
\* lines 463-505
ResampleUp(arg, stats) ==
    LET T == ResampleTo(arg)
        warned == ArgMsgs(arg) \cup (IF StatsGiven(stats) THEN {"stats ignored"} ELSE {})
    IN  /\ timeOffset # NaN
        /\ T < timeOffset
        /\ IF UpsampleRaises(df, T)
           THEN /\ Ended(arg, stats, "up", "unable")
                /\ msgs' = warned \cup {"unable to resample"}
                /\ UNCHANGED <<df, columns, timeOffset>>
           ELSE /\ UpCount(df, T) <= MaxGrid
                /\ Ended(arg, stats, "up", "done")
                /\ msgs' = warned \cup {"upsampled"}
                /\ df' = Upsampled(df, T)
                /\ columns' = <<"value">>
                /\ timeOffset' = T

\* a variant that leaves the period as it was, to compare with ResampleDown
ResampleDownKeepsPeriod(arg, stats) ==
    LET T == ResampleTo(arg)
        f == StatFlags(stats)
    IN  /\ timeOffset # NaN
        /\ T > timeOffset
        /\ \E end \in DownsampleEnds(df, f) :
            IF end = "raised"
            THEN /\ Ended(arg, stats, "down", "unable")
                 /\ msgs' = ArgMsgs(arg) \cup {"unable to resample"}
                 /\ UNCHANGED <<df, columns, timeOffset>>
            ELSE /\ DownCount(df, T) <= MaxGrid
                 /\ Ended(arg, stats, "down", "done")
                 /\ msgs' = ArgMsgs(arg) \cup {"downsampled"}
                 /\ df' = Downsampled(df, T, StatColumns(f))
                 /\ columns' = StatColumns(f)
                 /\ timeOffset' = timeOffset
\* lines 506-610
ResampleDown(arg, stats) ==
    LET T == ResampleTo(arg)
        f == StatFlags(stats)
    IN  /\ timeOffset # NaN
        /\ T > timeOffset
        /\ \E end \in DownsampleEnds(df, f) :
            IF end = "raised"
            THEN /\ Ended(arg, stats, "down", "unable")
                 /\ msgs' = ArgMsgs(arg) \cup {"unable to resample"}
                 /\ UNCHANGED <<df, columns, timeOffset>>
            ELSE /\ DownCount(df, T) <= MaxGrid
                 /\ Ended(arg, stats, "down", "done")
                 /\ msgs' = ArgMsgs(arg) \cup {"downsampled"}
                 /\ df' = Downsampled(df, T, StatColumns(f))
                 /\ columns' = StatColumns(f)
                 /\ timeOffset' = T

\* lines 611-615
ResampleNotNeeded(arg, stats) ==
    /\ timeOffset # NaN
    /\ ResampleTo(arg) = timeOffset
    /\ Ended(arg, stats, "noop", "done")
    /\ msgs' = ArgMsgs(arg) \cup {"resampling not needed"}
    /\ UNCHANGED <<df, columns, timeOffset>>

\* TsIdxData.resample(resampleArg, stats)
Resample(arg, stats) ==
    /\ pc = "built"
    /\ calls < MaxCalls
    /\ calls' = calls + 1
    /\ \/ ResampleNoPeriod(arg, stats)
       \/ ResampleUp(arg, stats)
       \/ ResampleDown(arg, stats)
       \/ ResampleNotNeeded(arg, stats)
    /\ UNCHANGED <<src, pc, dfSorted, dfQueried, al>>

-----------------------------------------------------------------------------
(* The alignment of the instruments, the body of ftArchPostProc.py *)

\* An instrument is [name, df, columns, timeOffset], a TsIdxData object.  A name
\* is [lower, text]: lower ranks name.lower(), text ranks the name as it is
\* spelt, so that two names of one lower differ in case only.
Name(rank, variant) == [lower |-> rank, text |-> 2 * rank + variant]

SetMin(S) == CHOOSE x \in S : \A y \in S : x <= y
SetMax(S) == CHOOSE x \in S : \A y \in S : x >= y

\* TsIdxData.resample as a function of the object: the objects it may leave
ResampleResults(s, arg, stats) ==
    LET T == ResampleTo(arg)
        f == StatFlags(stats)
    IN  IF T < s.timeOffset
        THEN IF UpsampleRaises(s.df, T) THEN {s}
             ELSE {[s EXCEPT !.df = Upsampled(s.df, T), !.columns = <<"value">>, !.timeOffset = T]}
        ELSE IF T > s.timeOffset
        THEN {IF end = "raised" THEN s
              ELSE [s EXCEPT !.df = Downsampled(s.df, T, StatColumns(f)),
                             !.columns = StatColumns(f), !.timeOffset = T] :
                end \in DownsampleEnds(s.df, f)}
        ELSE {s}

\* line 2890: instData.sort(key = name.lower()); the sort of a list is stable
SortByLower(insts) ==
    LET ok(p) == \A i, j \in DOMAIN insts : i < j =>
                    \/ insts[p[i]].name.lower < insts[p[j]].name.lower
                    \/ insts[p[i]].name.lower = insts[p[j]].name.lower /\ p[i] < p[j]
    IN  IF insts = <<>> THEN insts
        ELSE LET p == CHOOSE q \in Permutations(DOMAIN insts) : ok(q)
             IN  [i \in DOMAIN insts |-> insts[p[i]]]

\* lines 2904-2932: the earliest start, the latest end and the smallest period
\* of the instruments that have data
NonEmpty(insts) == {i \in DOMAIN insts : insts[i].df # <<>>}
DataStartHead(insts) ==
    IF insts = <<>> \/ insts[1].df = <<>> THEN NaT ELSE FirstTs(insts[1].df)
DataStartFirstInst(insts) ==
    IF NonEmpty(insts) = {} THEN NaT ELSE FirstTs(insts[SetMin(NonEmpty(insts))].df)
DataStart(insts) ==
    IF NonEmpty(insts) = {} THEN NaT ELSE SetMin({FirstTs(insts[i].df) : i \in NonEmpty(insts)})
DataEnd(insts) ==
    IF NonEmpty(insts) = {} THEN NaT ELSE SetMax({LastTs(insts[i].df) : i \in NonEmpty(insts)})
\* a variant that takes the largest period, to compare with MinFreq
MinFreqLargest(insts) ==
    IF NonEmpty(insts) = {} THEN NaN ELSE SetMax({insts[i].timeOffset : i \in NonEmpty(insts)})
MinFreq(insts) ==
    IF NonEmpty(insts) = {} THEN NaN ELSE SetMin({insts[i].timeOffset : i \in NonEmpty(insts)})

\* lines 2945-2957: the later of the data's start and the start argument, the
\* earlier of the data's end and the end argument
GlobalStart(insts, startArg) ==
    SetMax({DataStart(insts), IF startArg = None THEN DataStart(insts) ELSE startArg})
GlobalEnd(insts, endArg) ==
    SetMin({DataEnd(insts), IF endArg = None THEN DataEnd(insts) ELSE endArg})

\* lines 522-532 and 2961-2962: the resample argument, one second when it is no
\* offset, the smallest period of the data when there is none
TargetPeriod(insts, resampleArg) ==
    IF resampleArg.k = "none" THEN MinFreq(insts) ELSE ResampleTo(resampleArg)

\* lines 2971-2994: date_range from the start floored to T to the end, every T
MasterGridFromStart(gs, ge, T) ==
    [i \in 1..((ge - gs) \div T + 1) |-> gs + (i - 1) * T]
MasterGrid(gs, ge, T) ==
    LET start == FloorTo(gs, T)
        count == IF start > ge THEN 0 ELSE (ge - start) \div T + 1
    IN  [i \in 1..count |-> start + (i - 1) * T]

\* lines 3053-3055: merge_asof(direction = 'backward'): the cells of the last
\* row at or before g, NaN cells when there is none
MergeAsofForward(rows, ncols, g) ==
    LET at == {i \in DOMAIN rows : rows[i].ts >= g}
    IN  IF at = {} THEN [k \in 1..ncols |-> NanCell]
        ELSE rows[CHOOSE i \in at : \A j \in at : i <= j].c
MergeAsof(rows, ncols, g) ==
    LET at == {i \in DOMAIN rows : rows[i].ts <= g}
    IN  IF at = {} THEN [k \in 1..ncols |-> NanCell]
        ELSE rows[CHOOSE i \in at : \A j \in at : j <= i].c

\* a variant that leaves the NaN cells, to compare with FillNa
FillNaSkipped(cells) == cells
\* line 3059: fillna(0.0)
FillNa(cells) == [k \in DOMAIN cells |-> IF cells[k].k = "nan" THEN Num(0) ELSE cells[k]]

AlignUnchanged == UNCHANGED <<src, pc, df, columns, timeOffset, dfSorted, dfQueried, call, msgs, calls>>

\* lines 2882-3005: the instruments sorted, the window, the target period and
\* the master date range.  With no data in any instrument nothing is written
\* (line 3081); a target period of zero raises out of the floor or out of
\* date_range (a division by zero) and the script ends.
AlignPrepare ==
    /\ al.pc = "start"
    /\ LET sorted == SortByLower(al.insts)
           gs == GlobalStart(sorted, al.startArg)
           ge == GlobalEnd(sorted, al.endArg)
           T == TargetPeriod(sorted, al.resampleArg)
           grid == MasterGrid(gs, ge, T)
       IN  IF DataStart(sorted) = NaT
           THEN al' = [al EXCEPT !.pc = "nodata", !.insts = sorted]
           ELSE IF T = 0
           THEN al' = [al EXCEPT !.pc = "raised", !.insts = sorted,
                                 !.globalStart = gs, !.globalEnd = ge, !.T = T]
           ELSE al' = [al EXCEPT !.pc = "merging", !.insts = sorted,
                                 !.globalStart = gs, !.globalEnd = ge, !.T = T,
                                 !.grid = grid,
                                 !.table = [i \in DOMAIN grid |-> [ts |-> grid[i], c |-> <<>>]],
                                 !.next = 1]
    /\ AlignUnchanged

\* a variant that joins as an inner join does, to compare with AlignMerge: the
\* rows of the table before the first row of the instrument are dropped
AlignMergeInner ==
    /\ al.pc = "merging"
    /\ al.next <= Len(al.insts)
    /\ \E r \in ResampleResults(al.insts[al.next], Period(al.T), al.stats) :
        LET matched(row) == \E i \in DOMAIN r.df : r.df[i].ts <= row.ts
            kept == SelectSeq(al.table, matched)
        IN  al' = [al EXCEPT
                    !.insts[al.next] = r,
                    !.table = [i \in DOMAIN kept |->
                                [kept[i] EXCEPT !.c = @ \o MergeAsof(r.df, Len(r.columns), kept[i].ts)]],
                    !.cols = @ \o [k \in DOMAIN r.columns |-> <<r.name, r.columns[k]>>],
                    !.next = @ + 1]
    /\ AlignUnchanged
\* lines 3043-3055: one pass of the loop: the instrument resampled, then merged
AlignMerge ==
    /\ al.pc = "merging"
    /\ al.next <= Len(al.insts)
    /\ \E r \in ResampleResults(al.insts[al.next], Period(al.T), al.stats) :
        al' = [al EXCEPT
                !.insts[al.next] = r,
                !.table = [i \in DOMAIN al.table |->
                            [al.table[i] EXCEPT !.c = @ \o MergeAsof(r.df, Len(r.columns), al.table[i].ts)]],
                !.cols = @ \o [k \in DOMAIN r.columns |-> <<r.name, r.columns[k]>>],
                !.next = @ + 1]
    /\ AlignUnchanged

\* lines 3057-3076: the NaN cells filled with 0.0 and the table written
AlignWrite ==
    /\ al.pc = "merging"
    /\ al.next > Len(al.insts)
    /\ al' = [al EXCEPT !.pc = "written",
                        !.table = [i \in DOMAIN al.table |-> [al.table[i] EXCEPT !.c = FillNa(@)]]]
    /\ AlignUnchanged

-----------------------------------------------------------------------------
(* The inputs *)

\* the sequences over S of length at most n
SeqsUpTo(S, n) == UNION {[1..m -> S] : m \in 0..n}

TsCell(k, t) == [k |-> k, t |-> t]
NoQuery == [k |-> "none", lo |-> 0, hi |-> 0]
NoBound == [k |-> "none", t |-> 0]
Source(form, rows, vq, ident, sq, eq) ==
    [form |-> form, rows |-> rows, vq |-> vq, yNameIdent |-> ident,
     startQuery |-> sq, endQuery |-> eq]

\* rows whose timestamps collide, do not parse or are finer than a millisecond,
\* and whose values are numbers and a text that is no number
CleanTs(form) ==
    IF form = "text"
    THEN {TsCell("fmt", Sec), TsCell("fmt", Sec + 1), TsCell("junk", 0)}
    ELSE {TsCell("dt", Sec), TsCell("dt", Sec + 1), TsCell("dt", 0)}
CleanVals == {TxtNum(1), TxtNum(2), TxtBad}
CleanInputs ==
    {Source(form, rows, NoQuery, TRUE, NoBound, NoBound) :
        form \in {"text"}, rows \in SeqsUpTo({Row(t, v) : t \in CleanTs("text"), v \in CleanVals}, MaxRows)}
    \cup {Source(form, rows, NoQuery, TRUE, NoBound, NoBound) :
        form \in {"dtindex"}, rows \in SeqsUpTo({Row(t, v) : t \in CleanTs("dtindex"), v \in CleanVals}, MaxRows)}
    \cup {Source("none", <<>>, NoQuery, TRUE, NoBound, NoBound)}

\* rows one second apart whose values lie at and around the bounds of the query
\* "val >= 1 and val <= 2", with the query absent, well formed and malformed
FilterVals == {TxtNum(0), TxtNum(1), TxtNum(2), TxtNum(3), TxtBad, TxtInf, NanCell}
FilterQueries == {NoQuery, [k |-> "range", lo |-> 1, hi |-> 2], [k |-> "malformed", lo |-> 0, hi |-> 0]}
FilterInputs ==
    {Source("text", [i \in DOMAIN vs |-> Row(TsCell("len", i * Sec), vs[i])], vq, ident, NoBound, NoBound) :
        vs \in SeqsUpTo(FilterVals, MaxRows), vq \in FilterQueries, ident \in BOOLEAN}

\* rows around the midnights that end day 0 and day 1, and window bounds given
\* as dates, as instants and as midnight written out
RECURSIVE Ascending(_, _)
\* the ascending sequences over the set S of numbers, of length at most n
Ascending(S, n) ==
    IF n = 0 \/ S = {} THEN {<<>>}
    ELSE {<<>>} \cup UNION {{<<x>> \o q : q \in Ascending({y \in S : y > x}, n - 1)} : x \in S}
WindowTs == {Day - Sec, Day - 1, Day, Day + Sec, 2 * Day - 1, 2 * Day}
WindowStarts == {NoBound, [k |-> "invalid", t |-> 0], [k |-> "date", t |-> Day], [k |-> "datetime", t |-> Day - 1]}
WindowEnds == {NoBound, [k |-> "invalid", t |-> 0], [k |-> "date", t |-> 0], [k |-> "date", t |-> Day],
               [k |-> "datetime", t |-> Day], [k |-> "datetime", t |-> Day + Sec]}
WindowInputs ==
    {Source(form, [i \in DOMAIN ts |-> Row(TsCell(IF form = "text" THEN "fmt" ELSE "dt", ts[i]), TxtNum(i))],
            NoQuery, TRUE, sq, eq) :
        form \in {"text", "dtindex"}, ts \in Ascending(WindowTs, MaxRows), sq \in WindowStarts, eq \in WindowEnds}

\* timestamps evenly and unevenly spaced, repeated and out of order
FreqTs == {0, Sec, 2 * Sec, 3 * Sec, 5 * Sec}
FreqInputs ==
    {Source("dtindex", [i \in DOMAIN ts |-> Row(TsCell("dt", ts[i]), TxtNum(i))], NoQuery, TRUE, NoBound, NoBound) :
        ts \in SeqsUpTo(FreqTs, MaxRows + 1) \cup {<<0, 5 * Sec, 10 * Sec, 15 * Sec>>}}

Inputs == CleanInputs \cup FilterInputs \cup WindowInputs \cup FreqInputs

InitWith(S) ==
    /\ src \in S
    /\ pc = "new"
    /\ df = <<>>
    /\ columns = <<>>
    /\ timeOffset = NaN
    /\ dfSorted = <<>>
    /\ dfQueried = <<>>
    /\ call = NoCall
    /\ msgs = {}
    /\ calls = 0
    /\ al = NoAlign

\* frames for the resample: rows on and off the whole seconds, a timestamp
\* that occurs twice, a column of text, no rows, and no source frame
ResampleTs == {0, Sec \div 2, Sec, 2 * Sec, 4 * Sec}
DtRows(ts) == [i \in DOMAIN ts |-> Row(TsCell("dt", ts[i]), TxtNum(10 * i))]
ResampleInputs ==
    {Source("dtindex", DtRows(ts), NoQuery, TRUE, NoBound, NoBound) :
        ts \in Ascending(ResampleTs, MaxRows) \cup {<<0, 0, 2 * Sec>>, <<Sec, 3 * Sec, 3 * Sec>>}}
    \cup {Source("dtindex", <<Row(TsCell("dt", 0), TxtNum(1)), Row(TsCell("dt", Sec), TxtBad)>>,
                  NoQuery, TRUE, NoBound, NoBound),
          Source("none", <<>>, NoQuery, TRUE, NoBound, NoBound)}

ResampleArgs ==
    {NoArg, [k |-> "invalid", p |-> 0], Period(0), Period(0 - Sec), Period(Sec \div 2),
     Period(Sec), Period(2 * Sec)}
ResampleStats == {NoStats, Str(<<>>), Str(<<"m">>), Str(<<"V", "x">>)}

\* the constructor alone, on every input
Init == InitWith(Inputs)
Next == Construct
Spec == Init /\ [][Next]_vars

\* the constructor and then resample calls
InitR == InitWith(ResampleInputs)
NextR ==
    \/ Construct
    \/ \E arg \in ResampleArgs, stats \in ResampleStats : Resample(arg, stats)
SpecR == InitR /\ [][NextR]_vars

\* frames for the statistics of a downsample: rows on whole seconds with the
\* values 3, 7, 2, 5 in this order, resampled to 2 s and to 3 s with stats texts
\* of every letter, in both cases, repeated, reordered and unknown
StatTs == {Sec, 2 * Sec, 3 * Sec, 6 * Sec}
StatVals == <<3, 7, 2, 5>>
StatInputs ==
    {Source("dtindex", [i \in DOMAIN ts |-> Row(TsCell("dt", ts[i]), TxtNum(StatVals[i]))],
            NoQuery, TRUE, NoBound, NoBound) :
        ts \in Ascending(StatTs, MaxRows)}
StatArgs == {Period(2 * Sec), Period(3 * Sec)}
StatStrings ==
    {NoStats}
    \cup {Str(<<ch>>) : ch \in {"v", "i", "x", "m", "a", "s", "d", "V", "S", "A", "q"}}
    \cup {Str(<<>>), Str(<<"v", "i">>), Str(<<"i", "v">>), Str(<<"v", "v">>), Str(<<"V", "x">>),
          Str(<<"q", "v">>), Str(<<"v", "i", "x", "m", "s">>)}

\* the constructor and then resample calls with these statistics
InitS == InitWith(StatInputs)
NextS ==
    \/ Construct
    \/ \E arg \in StatArgs, stats \in StatStrings : Resample(arg, stats)
SpecS == InitS /\ [][NextS]_vars

\* instruments for the alignment: no rows, rows 2 s apart, rows off
\* the whole seconds with a gap, a timestamp that occurs twice, rows 1 s apart;
\* names that differ in case only; each instrument is built with the start and
\* end arguments of the run (line 2849)
AlignNames == {Name(1, 0), Name(1, 1), Name(2, 1)}
AlignRows ==
    {<<>>,
     <<Row(0, Num(10)), Row(2 * Sec, Num(20))>>,
     <<Row(Sec \div 2, Num(10)), Row(Sec, Num(20)), Row(3 * Sec, Num(30))>>,
     <<Row(0, Num(10)), Row(0, Num(20)), Row(2 * Sec, Num(30))>>,
     <<Row(0, Num(3)), Row(Sec, Num(7)), Row(2 * Sec, Num(2))>>}
MakeInst(name, rows, sq, eq) ==
    LET d == LocSlice(rows, StartBound(sq), EndBound(eq))
    IN  [name |-> name, df |-> d, columns |-> <<"value">>, timeOffset |-> Frequency(TsOf(d))]
AlignLists ==
    {q \in UNION {[1..m -> AlignNames \X AlignRows] : m \in 0..MaxInsts} :
        \A i, j \in DOMAIN q : i # j => q[i][1] # q[j][1]}
AlignStarts == {NoBound, [k |-> "datetime", t |-> Sec]}
AlignEnds == {NoBound, [k |-> "datetime", t |-> 2 * Sec]}
AlignResamples == {NoArg, Period(0), Period(Sec \div 2), Period(Sec), Period(2 * Sec)}
AlignStats == {Str(<<"m">>), Str(<<"v", "x">>)}
AlignRun(q, sq, eq, arg, stats) ==
    LET insts == [i \in DOMAIN q |-> MakeInst(q[i][1], q[i][2], sq, eq)]
    IN  [pc |-> "start", input |-> insts, insts |-> insts,
         startArg |-> StartBound(sq), endArg |-> EndBound(eq),
         resampleArg |-> arg, stats |-> stats,
         globalStart |-> NaT, globalEnd |-> NaT, T |-> NaN,
         grid |-> <<>>, table |-> <<>>, cols |-> <<>>, next |-> 0]

\* a run of the main script on instruments already built
InitA ==
    /\ src = Source("none", <<>>, NoQuery, TRUE, NoBound, NoBound)
    /\ pc = "new"
    /\ df = <<>>
    /\ columns = <<>>
    /\ timeOffset = NaN
    /\ dfSorted = <<>>
    /\ dfQueried = <<>>
    /\ call = NoCall
    /\ msgs = {}
    /\ calls = 0
    /\ al \in {AlignRun(q, sq, eq, arg, stats) :
                q \in AlignLists, sq \in AlignStarts, eq \in AlignEnds,
                arg \in AlignResamples, stats \in AlignStats}
NextA ==
    \/ AlignPrepare
    \/ AlignMerge
    \/ AlignWrite
SpecA == InitA /\ [][NextA]_vars

-----------------------------------------------------------------------------
(* The claims about the constructor, under Spec *)

\* C1: the timestamps of a built series are strictly increasing: no two samples
\* of one instrument have the same timestamp.
C1_StrictlyIncreasing == pc = "built" => StrictlyIncreasing(df)

\* C2: when several raw rows of numbers have, once rounded to the millisecond,
\* the same timestamp, the built series holds exactly one sample at that
\* timestamp and its value is the value of the last of these rows in input order.
C2_LastWriteWins ==
    (pc = "built" /\ \A j \in DOMAIN src.rows : Val(src.rows[j]).k = "str" /\ src.rows[j].ts.k # "junk") =>
        \A i \in DOMAIN src.rows :
            LET t == RoundMs(src.rows[i].ts.t)
                same == {j \in DOMAIN src.rows : RoundMs(src.rows[j].ts.t) = t}
                at == {n \in DOMAIN df : RoundMs(df[n].ts) = t}
            IN  (Cardinality(same) > 1 /\ \A j \in same : j <= i) =>
                    /\ Cardinality(at) = 1
                    /\ \A n \in at : Val(df[n]) = Num(Val(src.rows[i]).n)

\* C3: with no filter and no window, construction completes without error, every
\* value of the built series is a finite float, every raw row whose value and
\* timestamp both parse is retained, and no sample comes from a raw row whose
\* value or timestamp does not parse.
C3_BadRowsDropped ==
    (pc # "new" /\ src.form # "none" /\ src.vq.k = "none"
     /\ src.startQuery.k = "none" /\ src.endQuery.k = "none") =>
        LET good == {i \in DOMAIN src.rows : src.rows[i].ts.k # "junk" /\ Val(src.rows[i]).k = "str"}
        IN  /\ pc = "built"
            /\ \A n \in DOMAIN df : IsFiniteFloat(Val(df[n]))
            /\ \A i \in good : \E n \in DOMAIN df : RoundMs(df[n].ts) = RoundMs(src.rows[i].ts.t)
            /\ \A n \in DOMAIN df : \E i \in good :
                    /\ RoundMs(df[n].ts) = RoundMs(src.rows[i].ts.t)
                    /\ Val(df[n]) = Num(Val(src.rows[i]).n)

\* C4: with the well-formed filter "val >= lo and val <= hi", the built series
\* contains exactly the cleaned rows whose value v has lo <= v <= hi: a value on
\* a bound is kept, a value outside is dropped.
C4_FilterExact ==
    (pc = "built" /\ src.vq.k = "range") =>
        LET good == {i \in DOMAIN src.rows : src.rows[i].ts.k # "junk" /\ Val(src.rows[i]).k = "str"}
            kept == {i \in good : src.vq.lo <= Val(src.rows[i]).n /\ Val(src.rows[i]).n <= src.vq.hi}
            sample(i) == Row(RoundMs(src.rows[i].ts.t), Num(Val(src.rows[i]).n))
        IN  /\ \A i \in kept : \E n \in DOMAIN df : df[n] = sample(i)
            /\ \A n \in DOMAIN df : \E i \in kept : df[n] = sample(i)

\* C5: with a malformed filter text construction does not fail and the filter
\* removes no row: the series is the one built with no filter.
C5_MalformedSkipped ==
    (pc # "new" /\ src.vq.k = "malformed") =>
        /\ pc = "built"
        /\ dfQueried = dfSorted
        /\ df = dfSorted

\* C6: the built series contains exactly the samples s with windowStart <= s.ts
\* <= windowEnd, both bounds included; a start with no time of day is that
\* date's midnight, an end with no time of day keeps every sample of that date,
\* and an end with a time of day is that instant.
C6_WindowExact ==
    pc = "built" =>
        LET sq == src.startQuery
            eq == src.endQuery
            fromOk(t) == sq.k \in {"date", "datetime"} => sq.t <= t
            toOk(t) ==
                CASE eq.k = "date" -> t < eq.t + Day
                  [] eq.k = "datetime" -> t <= eq.t
                  [] OTHER -> TRUE
        IN  df = SelectSeq(dfQueried, LAMBDA r : fromOk(r.ts) /\ toOk(r.ts))

\* C7: the period of a series built from a source is, in this order: the gap
\* shared by all its samples when there are at least three and they are evenly
\* spaced (the clear dominant gap); else the gap between the samples of index 2
\* and 3 when there are at least 4; else the gap between the samples of index 0
\* and 1 when there are at least 2; else one second.  A gap of zero chosen this
\* way becomes one second.  [t, t+5s, t+10s, t+15s] gives 5 s, one sample 1 s.
C7_FrequencyPriority ==
    (pc = "built" /\ src.form # "none") =>
        LET n == Len(df)
            gap(i) == df[i + 1].ts - df[i].ts
            even == n >= 3 /\ gap(1) > 0 /\ \A i \in 1..(n - 1) : gap(i) = gap(1)
            chosen ==
                IF even THEN gap(1)
                ELSE IF n >= 4 THEN gap(3)
                ELSE IF n >= 2 THEN gap(1)
                ELSE Sec
        IN  timeOffset = IF chosen = 0 THEN Sec ELSE chosen

\* at least four samples, unevenly spaced: the period is the gap between the
\* samples of index 2 and 3, which is neither zero nor the first gap
C7_Witness ==
    /\ pc = "built"
    /\ Len(df) >= 4
    /\ df[4].ts - df[3].ts \notin {0, df[2].ts - df[1].ts}
    /\ timeOffset = df[4].ts - df[3].ts

-----------------------------------------------------------------------------
(* The claims about resample, under SpecR *)

\* C8: in every reachable state, after any sequence of resample calls too, the
\* period of a series is either null or strictly positive.
C8_PeriodNullOrPositive == pc = "built" => (timeOffset = NaN \/ timeOffset > 0)

\* C9: a resample call whose target period equals the current period of the
\* series leaves its samples, its columns and its period unchanged.
C9_NotNeededUnchanged ==
    [][(/\ calls' = calls + 1
        /\ call'.op = "resample"
        /\ call'.arg.k = "period"
        /\ timeOffset # NaN
        /\ call'.arg.p = timeOffset)
       => (df' = df /\ columns' = columns /\ timeOffset' = timeOffset)]_vars

\* a series of several samples, already resampled once, has taken a resample
\* call with statistics to the period it has
C9_Witness ==
    /\ calls = 2
    /\ call.op = "resample"
    /\ call.arg.k = "period"
    /\ call.arg.p = timeOffset
    /\ call.stats.k = "str"
    /\ call.end = "done"
    /\ Len(df) >= 2

\* C10: a resample call to a positive target period below the period of a
\* series that has samples makes of it the grid first, first + T, ... up to the
\* last sample, each grid point with the value of the last sample at or before
\* it, and T as the new period: (t0, 10), (t0 + 2s, 20) to 1 s gives 10, 10, 20.
C10_UpsampleCarryForward ==
    [][(/\ calls' = calls + 1
        /\ call'.op = "resample"
        /\ call'.arg.k = "period"
        /\ call'.arg.p > 0
        /\ timeOffset # NaN
        /\ call'.arg.p < timeOffset
        /\ df # <<>>)
       => LET T == call'.arg.p
              first == df[1].ts
              count == (df[Len(df)].ts - first) \div T + 1
              before(g) == {n \in DOMAIN df : df[n].ts <= g}
              carried(g) == Val(df[CHOOSE n \in before(g) : \A m \in before(g) : m <= n])
          IN  /\ df' = [i \in 1..count |-> Row(first + (i - 1) * T, carried(first + (i - 1) * T))]
              /\ timeOffset' = T]_vars

-----------------------------------------------------------------------------
(* The claims about the statistics of a downsample, under SpecS *)

\* C11: a resample call to a target period T above the period of a series of
\* floats makes rows T apart; the row labelled g aggregates exactly the samples
\* with g - T < timestamp <= g: its Min, Max and Mean cells are the minimum,
\* maximum and mean of their values, an interval with no sample has empty (NaN)
\* cells, and every sample lies in the interval of one row.  The values 3, 7, 2
\* in one interval of 3 s give Max = 7 and Mean = 4.
C11_DownsampleBins ==
    [][(/\ calls' = calls + 1
        /\ call'.op = "resample"
        /\ call'.arg.k = "period"
        /\ timeOffset # NaN
        /\ call'.arg.p > timeOffset
        /\ \A i \in DOMAIN df : df[i].c[1].k \in {"num", "nan"})
       => LET T == call'.arg.p
              v(i) == df[i].c[1]
              inBin(g) == {i \in DOMAIN df : g - T < df[i].ts /\ df[i].ts <= g /\ v(i).k # "nan"}
              RECURSIVE denoms(_), sum(_, _)
              denoms(n) == IF n = 0 THEN 1 ELSE v(n).d * denoms(n - 1)
              sum(n, g) ==
                  IF n = 0 THEN 0
                  ELSE sum(n - 1, g)
                       + (IF n \in inBin(g) THEN v(n).n * (denoms(Len(df)) \div v(n).d) ELSE 0)
              isMin(c, g) == (\E i \in inBin(g) : c = v(i)) /\ \A i \in inBin(g) : c.n * v(i).d <= v(i).n * c.d
              isMax(c, g) == (\E i \in inBin(g) : c = v(i)) /\ \A i \in inBin(g) : c.n * v(i).d >= v(i).n * c.d
              isMean(c, g) ==
                  c.k = "num" /\ c.n * denoms(Len(df)) * Cardinality(inBin(g)) = c.d * sum(Len(df), g)
          IN  /\ \A j \in 1..(Len(df') - 1) : df'[j + 1].ts = df'[j].ts + T
              /\ \A i \in DOMAIN df : \E j \in DOMAIN df' : df'[j].ts - T < df[i].ts /\ df[i].ts <= df'[j].ts
              /\ \A j \in DOMAIN df' : \A k \in DOMAIN columns' :
                    LET c == df'[j].c[k]
                        g == df'[j].ts
                    IN  IF columns'[k] \in {"min", "max", "mean"} /\ inBin(g) = {} THEN c = NanCell
                        ELSE CASE columns'[k] = "min" -> isMin(c, g)
                               [] columns'[k] = "max" -> isMax(c, g)
                               [] columns'[k] = "mean" -> isMean(c, g)
                               [] OTHER -> TRUE]_vars

\* the samples (1 s, 3), (2 s, 7), (6 s, 2) resampled to 2 s with every
\* statistic: three rows, the one labelled 4 s empty, the one labelled 2 s
\* with Min 3, Max 7 and Mean 5
C11_Witness ==
    /\ calls = 1
    /\ call.op = "resample"
    /\ call.arg = Period(2 * Sec)
    /\ columns = <<"value", "min", "max", "mean", "std">>
    /\ Len(df) = 3
    /\ df[1].ts = 2 * Sec /\ df[1].c[2] = Num(3) /\ df[1].c[3] = Num(7) /\ df[1].c[4] = Num(5)
    /\ df[2].ts = 4 * Sec /\ \A k \in 1..4 : df[2].c[k] = NanCell

C13_StatsPerCharacter ==
    [][(/\ calls' = calls + 1
        /\ call'.op = "resample"
        /\ call'.arg.k = "period"
        /\ timeOffset # NaN
        /\ call'.arg.p > timeOffset)
       => LET s == IF call'.stats.k = "none" THEN <<>> ELSE call'.stats.s
              has(chars) == \E n \in DOMAIN s : s[n] \in chars
              named ==
                  (IF has({"v", "V"}) THEN {"value"} ELSE {})
                  \cup (IF has({"i", "I"}) THEN {"min"} ELSE {})
                  \cup (IF has({"x", "X"}) THEN {"max"} ELSE {})
                  \cup (IF has({"m", "M", "a", "A"}) THEN {"mean"} ELSE {})
                  \cup (IF has({"s", "S", "d", "D"}) THEN {"std"} ELSE {})
          IN  /\ Range(columns') = IF named = {} THEN {"mean"} ELSE named
              /\ Len(columns') = Cardinality(Range(columns'))]_vars

\* a resample call with the stats text "S" made the StdDev column alone
C13_Witness ==
    /\ call.op = "resample"
    /\ call.stats = Str(<<"S">>)
    /\ call.end = "done"
    /\ columns = <<"std">>

-----------------------------------------------------------------------------
(* The claims about the alignment, under SpecA *)

\* the instruments of the run that have a sample
HasData == \E i \in DOMAIN al.input : al.input[i].df # <<>>
\* a timestamp occurs twice in the rows
RepeatedTs(rows) == \E i, j \in DOMAIN rows : i # j /\ rows[i].ts = rows[j].ts
\* the step is the pass of the merge loop over the instrument k
MergeStepOf(k) == al.pc = "merging" /\ al.next = k /\ al'.pc = "merging" /\ al'.next = k + 1

InputTs == UNION {{al.input[i].df[j].ts : j \in DOMAIN al.input[i].df} : i \in DOMAIN al.input}

\* C15: once the window is set, globalStart is the later of the earliest sample
\* of all the series and the start bound, if one was given, and globalEnd the
\* earlier of the latest sample and the end bound, if one was given; a series
\* without samples has no part in either.
C15_Window ==
    al.pc \in {"merging", "written", "raised"} =>
        \E lo, hi \in InputTs :
            /\ \A t \in InputTs : lo <= t /\ t <= hi
            /\ al.globalStart = (IF al.startArg # None /\ al.startArg > lo THEN al.startArg ELSE lo)
            /\ al.globalEnd = (IF al.endArg # None /\ al.endArg < hi THEN al.endArg ELSE hi)

\* two series with samples and a start bound; the series that is first by name
\* starts later and ends earlier than the other
C15_Witness ==
    /\ al.pc = "merging"
    /\ Len(al.insts) = 2
    /\ al.startArg # None
    /\ al.insts[1].df # <<>>
    /\ al.insts[2].df # <<>>
    /\ FirstTs(al.insts[1].df) > FirstTs(al.insts[2].df)
    /\ al.globalStart = FirstTs(al.insts[2].df)
    /\ LastTs(al.insts[1].df) < LastTs(al.insts[2].df)
    /\ al.globalEnd = LastTs(al.insts[2].df)

C17_MasterGrid ==
    al.pc \in {"merging", "written"} =>
        LET g == al.grid
            n == Len(al.grid)
        IN  /\ n >= 1
            /\ al.T > 0
            /\ g[1] % al.T = 0
            /\ g[1] <= al.globalStart
            /\ al.globalStart < g[1] + al.T
            /\ \A i \in 1..(n - 1) : g[i + 1] = g[i] + al.T
            /\ g[n] <= al.globalEnd
            /\ g[n] + al.T > al.globalEnd
            /\ \A i \in 1..n : al.table[i].ts = g[i]

\* a grid of two timestamps that starts before globalStart, which is no multiple
\* of the target period, and ends before globalEnd
C17_Witness ==
    /\ al.pc = "merging"
    /\ Len(al.grid) = 2
    /\ al.grid[1] < al.globalStart
    /\ al.grid[2] < al.globalEnd

\* the place in a row of the table before the columns of the k-th series
RECURSIVE ColumnsBefore(_)
ColumnsBefore(k) == IF k = 1 THEN 0 ELSE ColumnsBefore(k - 1) + Len(al.insts[k - 1].columns)
\* the rows of the k-th series, as resampled, at or before g
RowsUpTo(k, g) == {r \in DOMAIN al.insts[k].df : al.insts[k].df[r].ts <= g}
LatestUpTo(k, g) == al.insts[k].df[CHOOSE r \in RowsUpTo(k, g) : \A q \in RowsUpTo(k, g) : q <= r]

\* C18, as the spec states it: in the written table the cell of a series at the
\* grid timestamp g is the value of the latest sample of the resampled series
\* at or before g, and 0.0 when the series has no sample at or before g.
C18_LatestOrZero ==
    al.pc = "written" =>
        \A i \in DOMAIN al.table, k \in DOMAIN al.insts : \A j \in DOMAIN al.insts[k].columns :
            al.table[i].c[ColumnsBefore(k) + j] =
                (IF RowsUpTo(k, al.table[i].ts) = {} THEN Num(0)
                 ELSE LatestUpTo(k, al.table[i].ts).c[j])

\* C18, amended: the cell is the value of the latest sample of the resampled
\* series at or before g; it is 0.0 when the series has no sample at or before
\* g, and also when the value of that latest sample is empty (NaN: an interval
\* of the downsample without samples, or the time before the first sample of a
\* padded series).
C18_LatestOrZeroForNaN ==
    al.pc = "written" =>
        \A i \in DOMAIN al.table, k \in DOMAIN al.insts : \A j \in DOMAIN al.insts[k].columns :
            al.table[i].c[ColumnsBefore(k) + j] =
                (IF RowsUpTo(k, al.table[i].ts) = {} THEN Num(0)
                 ELSE IF LatestUpTo(k, al.table[i].ts).c[j] = NanCell THEN Num(0)
                 ELSE LatestUpTo(k, al.table[i].ts).c[j])

\* a written table of two series: the second has no sample at the first grid
\* timestamp and one at a later; the latest sample of the first at some grid
\* timestamp is empty
C18_Witness ==
    /\ al.pc = "written"
    /\ Len(al.insts) = 2
    /\ Len(al.table) >= 2
    /\ RowsUpTo(2, al.table[1].ts) = {}
    /\ al.table[1].c[ColumnsBefore(2) + 1] = Num(0)
    /\ \E i \in DOMAIN al.table :
        /\ RowsUpTo(2, al.table[i].ts) # {}
        /\ al.table[i].c[ColumnsBefore(2) + 1] = LatestUpTo(2, al.table[i].ts).c[1]
        /\ al.table[i].c[ColumnsBefore(2) + 1] # Num(0)
    /\ \E i \in DOMAIN al.table :
        /\ RowsUpTo(1, al.table[i].ts) # {}
        /\ LatestUpTo(1, al.table[i].ts).c[1] = NanCell
        /\ al.table[i].c[1] = Num(0)

\* the place of a statistic in the order Value, Min, Max, Mean, StdDev
StatRank(c) ==
    CASE c = "value" -> 1 [] c = "min" -> 2 [] c = "max" -> 3 [] c = "mean" -> 4 [] c = "std" -> 5
\* the names of the instruments in the order of the list
NamesOf(insts) == [i \in DOMAIN insts |-> insts[i].name]

\* C19: the columns of the written table are in the order of the instrument
\* names, alphabetical without regard to case, and in the order Value, Min, Max,
\* Mean, StdDev within one instrument; and the instruments are merged in the
\* same order whatever the order they had in the input: the sort of every
\* permutation of the input gives the order of this run.
C19_OrderOfColumns ==
    al.pc = "written" =>
        /\ \A i, j \in DOMAIN al.cols : i < j =>
            IF al.cols[i][1] = al.cols[j][1]
            THEN StatRank(al.cols[i][2]) < StatRank(al.cols[j][2])
            ELSE al.cols[i][1].lower <= al.cols[j][1].lower
        /\ \A p \in Permutations(DOMAIN al.input) :
            NamesOf(SortByLower([i \in DOMAIN al.input |-> al.input[p[i]]])) = NamesOf(al.insts)

-----------------------------------------------------------------------------
(* The claim about the resolution of the timestamps, under Spec *)

\* C20: every timestamp of a series the constructor built is a whole number of
\* milliseconds, whether the source held the timestamps as a text column or as
\* a datetime index named tsName; so no two timestamps of the series are less
\* than a millisecond apart.
C20_WholeMilliseconds ==
    pc = "built" =>
        /\ \A i \in DOMAIN df : df[i].ts % Ms = 0
        /\ \A i, j \in DOMAIN df : df[i].ts < df[j].ts => df[j].ts - df[i].ts >= Ms

-----------------------------------------------------------------------------
(* Further claims about resample, under SpecS and SpecR *)

\* C21, as the documentation of the class, of resample and of -stats states
\* it: after a downsample with the Value statistic selected, the Value cell of
\* the row labelled g is the value of the first sample at or after g (the
\* samples from there up to the next label are discarded), and is empty when no
\* sample is at or after g.
C21_ValueIsFirstOnOrAfter ==
    [][(/\ calls' = calls + 1
        /\ call'.op = "resample"
        /\ call'.arg.k = "period"
        /\ timeOffset # NaN
        /\ call'.arg.p > timeOffset
        /\ call'.stats.k = "str"
        /\ \E n \in DOMAIN call'.stats.s : call'.stats.s[n] \in {"v", "V"})
       => LET onOrAfter(g) == {i \in DOMAIN df : df[i].ts >= g /\ df[i].c[1].k # "nan"}
              first(g) == CHOOSE i \in onOrAfter(g) : \A m \in onOrAfter(g) : df[i].ts <= df[m].ts
          IN  /\ columns'[1] = "value"
              /\ \A j \in DOMAIN df' :
                    df'[j].c[1] = IF onOrAfter(df'[j].ts) = {} THEN NanCell
                                  ELSE df[first(df'[j].ts)].c[1]]_vars

\* a downsample step on a frame of whole numbers with the StdDev statistic selected
StdDevStep ==
    /\ calls' = calls + 1
    /\ call'.op = "resample"
    /\ call'.arg.k = "period"
    /\ timeOffset # NaN
    /\ call'.arg.p > timeOffset
    /\ \A i \in DOMAIN df : df[i].c[1].k = "num" /\ df[i].c[1].d = 1
    /\ \E k \in DOMAIN columns' : columns'[k] = "std"
\* every StdDev cell the step leaves is the square root of the sum of the squared
\* deviations from the mean of its interval, divided by n - ddof; with n - ddof
\* = 0 the cell is single (n = 1, ddof = 0: the float 0; ddof = 1: empty)
StdDevCells(ddof, single) ==
    LET T == call'.arg.p
        inBin(g) == {i \in DOMAIN df : g - T < df[i].ts /\ df[i].ts <= g}
        RECURSIVE s1(_, _), s2(_, _)
        s1(m, g) == IF m = 0 THEN 0 ELSE s1(m - 1, g) + (IF m \in inBin(g) THEN df[m].c[1].n ELSE 0)
        s2(m, g) == IF m = 0 THEN 0
                    ELSE s2(m - 1, g) + (IF m \in inBin(g) THEN df[m].c[1].n * df[m].c[1].n ELSE 0)
    IN  \A j \in DOMAIN df' : \A k \in DOMAIN columns' : columns'[k] = "std" =>
            LET c == df'[j].c[k]
                g == df'[j].ts
                n == Cardinality(inBin(g))
                num == n * s2(Len(df), g) - s1(Len(df), g) * s1(Len(df), g)
                den == n * (n - ddof)
            IN  IF n = 0 THEN c = NanCell
                ELSE IF den = 0 THEN c = single
                ELSE IF num = 0 THEN c = Num(0)
                ELSE c.k = "sqrt" /\ c.n * den = c.d * num

\* C22, as the spec states it: the StdDev of an interval divides by the number n
\* of its samples (the population convention); an interval of one sample has
\* the StdDev 0.
C22_StdDevPopulation == [][StdDevStep => StdDevCells(0, Num(0))]_vars

\* C22, amended: the StdDev of an interval divides by n - 1 (the sample
\* convention); an interval of one sample has an empty StdDev (NaN).
C22_StdDevSample == [][StdDevStep => StdDevCells(1, NanCell)]_vars

\* the samples (1 s, 3), (2 s, 7), (6 s, 2) resampled to 2 s: the StdDev of the
\* interval of 3 and 7 is the root of 8, that of the interval of 2 alone is
\* empty while its Mean is 2
C22_Witness ==
    /\ calls = 1
    /\ call.op = "resample"
    /\ call.arg = Period(2 * Sec)
    /\ columns = <<"value", "min", "max", "mean", "std">>
    /\ Len(df) = 3
    /\ df[1].c[5] = [k |-> "sqrt", n |-> 8, d |-> 1]
    /\ df[3].c[4] = Num(2)
    /\ df[3].c[5] = NanCell

\* C23: a resample call that takes the upsample branch prints the warning that
\* the stats parameter will be ignored exactly when a stats text that is not
\* empty was passed: with stats None or "" the warning is not printed.
C23_WarningOnlyForStats ==
    [][(calls' = calls + 1 /\ call'.op = "resample" /\ call'.branch = "up")
        => ("stats ignored" \in msgs' <=> (call'.stats.k = "str" /\ call'.stats.s # <<>>))]_vars

-----------------------------------------------------------------------------
(* Further claims about the alignment, under SpecA *)

\* the k-th series of the merge as it was before the run resampled it
RawOf(k) == al.input[CHOOSE m \in DOMAIN al.input : al.input[m].name = al.insts[k].name]
\* the samples of that series at or before g, and those in the interval (g - T, g]
RawUpTo(k, g) == {r \in DOMAIN RawOf(k).df : RawOf(k).df[r].ts <= g}
RawInBin(k, g) == {r \in RawUpTo(k, g) : g - al.T < RawOf(k).df[r].ts}
\* the run downsamples the series, and some sample of it lies at or after g
Downsamples(k) == al.T > RawOf(k).timeOffset
RawFrom(k, g) == {r \in DOMAIN RawOf(k).df : RawOf(k).df[r].ts >= g}

C25_MergeKeepsRows ==
    [][\A k \in 1..MaxInsts + 1 : MergeStepOf(k) =>
        /\ Len(al'.table) = Len(al.grid)
        /\ al'.grid = al.grid
        /\ \A i \in DOMAIN al'.table :
            /\ al'.table[i].ts = al.grid[i]
            /\ i > 1 => al'.table[i - 1].ts < al'.table[i].ts
            /\ Len(al'.table[i].c) = Len(al.table[i].c) + Len(al'.insts[k].columns)
            /\ SubSeq(al'.table[i].c, 1, Len(al.table[i].c)) = al.table[i].c
        /\ Len(al'.cols) = Len(al.cols) + Len(al'.insts[k].columns)
        /\ SubSeq(al'.cols, 1, Len(al.cols)) = al.cols]_vars

\* two series merged into a grid of several timestamps: the second has no
\* sample at or before the first grid timestamp, and the first has cells there
C25_Witness ==
    /\ al.pc = "merging"
    /\ al.next = 3
    /\ Len(al.table) >= 2
    /\ Len(al.table) = Len(al.grid)
    /\ RowsUpTo(1, al.table[1].ts) # {}
    /\ RowsUpTo(2, al.table[1].ts) = {}
    /\ Len(al.table[1].c) = Len(al.insts[1].columns) + Len(al.insts[2].columns)
    /\ Len(al.insts[2].columns) = 2

-----------------------------------------------------------------------------
(* The claim about the filter as an invariant of the series, under Spec *)

\* C26: every value of a series built with a value filter "val >= lo and val <=
\* hi" passes the filter, in every state of the series.
C26_ValuesPassFilter ==
    (pc = "built" /\ src.vq.k = "range") =>
        \A i \in DOMAIN df : \A k \in DOMAIN df[i].c :
            /\ df[i].c[k].k = "num"
            /\ src.vq.lo * df[i].c[k].d <= df[i].c[k].n
            /\ df[i].c[k].n <= src.vq.hi * df[i].c[k].d


-----------------------------------------------------------------------------
(* The claims about the target period and the grid, under SpecA *)

\* the target period of a run with no resample argument is the smallest period
\* of the series that have samples
SmallestPeriod ==
    (al.resampleArg = NoArg /\ al.pc = "start" /\ HasData) =>
        /\ al'.pc = "merging"
        /\ \E i \in DOMAIN al.input : al.input[i].df # <<>> /\ al'.T = al.input[i].timeOffset
        /\ \A i \in DOMAIN al.input : al.input[i].df # <<>> => al'.T <= al.input[i].timeOffset
\* the series k is left as it was or upsampled by the pass of the loop over it
UnchangedOrUpsampled(k) ==
    LET s == al.insts[k]
    IN  /\ al.T <= s.timeOffset
        /\ al.T = s.timeOffset => al'.insts[k] = s
        /\ al.T < s.timeOffset =>
            al'.insts[k] \in {s, [s EXCEPT !.df = Upsampled(s.df, al.T),
                                          !.columns = <<"value">>, !.timeOffset = al.T]}

\* C27, as the spec states it: with no resample argument the target period is
\* the smallest period of the series that have samples, and every series of the
\* run is left unchanged or upsampled, none is downsampled.
C27_NoneDownsampled ==
    [][/\ SmallestPeriod
       /\ \A k \in 1..MaxInsts + 1 :
            (al.resampleArg = NoArg /\ MergeStepOf(k)) => UnchangedOrUpsampled(k)]_vars

\* C27, amended: with no resample argument the target period is the smallest
\* period of the series that have samples, and every series that has samples is
\* left unchanged or upsampled, none of them is downsampled; a series without
\* samples has the period of one second and stays without samples, downsampled
\* when the target period is longer than one second.
C27_NoneWithSamplesDownsampled ==
    [][/\ SmallestPeriod
       /\ \A k \in 1..MaxInsts + 1 :
            (al.resampleArg = NoArg /\ MergeStepOf(k)) =>
                IF al.insts[k].df # <<>> THEN UnchangedOrUpsampled(k)
                ELSE /\ al.insts[k].timeOffset = Sec
                     /\ al'.insts[k].df = <<>>
                     /\ al.T > Sec => al'.insts[k].timeOffset = al.T]_vars

\* a table written with no resample argument from two series with samples, of
\* the periods 2 s and 1 s: the first was upsampled to 1 s, the second left
C27_Witness ==
    /\ al.pc = "written"
    /\ al.resampleArg = NoArg
    /\ Len(al.insts) = 2
    /\ RawOf(1).df # <<>> /\ RawOf(1).timeOffset = 2 * Sec
    /\ RawOf(2).timeOffset = Sec
    /\ al.T = Sec
    /\ al.insts[1].timeOffset = Sec /\ Len(al.insts[1].df) > Len(RawOf(1).df)
    /\ al.insts[2] = RawOf(2)


-----------------------------------------------------------------------------
(* The claims about the period argument and the repeated call, under SpecR *)

\* C28: a resample call whose period argument is None or no period warns and
\* resamples to one second: when the call succeeds on a series whose period was
\* not one second, the period of the series is one second afterwards and its
\* rows are one second apart.
C28_NoPeriodIsOneSecond ==
    [][(/\ calls' = calls + 1
        /\ call'.op = "resample"
        /\ call'.arg.k \in {"none", "invalid"})
       => /\ call'.arg.k = "none" => "no resample period" \in msgs'
          /\ call'.arg.k = "invalid" => "invalid resample period" \in msgs'
          /\ (call'.end = "done" /\ timeOffset # Sec) =>
                /\ call'.branch \in {"up", "down"}
                /\ timeOffset' = Sec
                /\ \A j \in 1..(Len(df') - 1) : df'[j + 1].ts = df'[j].ts + Sec]_vars

\* a first call with an argument that is no period padded a series of samples
\* more than a second apart to rows one second apart
C28_Witness ==
    /\ calls = 1
    /\ call.op = "resample"
    /\ call.arg.k = "invalid"
    /\ call.branch = "up"
    /\ call.end = "done"
    /\ "invalid resample period" \in msgs
    /\ timeOffset = Sec
    /\ Len(df) > Len(dfSorted)
    /\ Len(dfSorted) >= 2


-----------------------------------------------------------------------------
(* The claim about the end of the grid, under SpecA *)

\* C29: in a written table, every sample of a downsampled series with a
\* timestamp from the floored start of the window to its end lies in an
\* interval (g - T, g] whose label g is a timestamp of the master grid: none is
\* left out because the label of its interval lies after the last grid timestamp.
C29_EverySampleOnGrid ==
    al.pc = "written" =>
        \A k \in DOMAIN al.insts :
            Downsamples(k) =>
                \A r \in DOMAIN RawOf(k).df :
                    LET t == RawOf(k).df[r].ts
                    IN  (FloorTo(al.globalStart, al.T) <= t /\ t <= al.globalEnd) =>
                            \E i \in DOMAIN al.grid : al.grid[i] - al.T < t /\ t <= al.grid[i]


\* C30: a resample call with a valid period and the arguments of the call
\* before it leaves the samples, the columns and the period as that call left
\* them; after a call that resampled, the period is the target period and the
\* second call takes the branch that does nothing.
C30_SecondCallNoOp ==
    [][(/\ calls = 1
        /\ calls' = 2
        /\ call.op = "resample"
        /\ call'.op = "resample"
        /\ call'.arg = call.arg
        /\ call'.stats = call.stats
        /\ call'.arg.k = "period"
        /\ call'.arg.p > 0)
       => /\ call.end = "done" =>
                /\ timeOffset = call.arg.p
                /\ call'.branch = "noop"
                /\ UNCHANGED <<df, columns, timeOffset>>
          /\ call'.end # "done" => UNCHANGED <<df, columns, timeOffset>>]_vars

\* a second call to 2 s with the statistics Value and Max, after the first made
\* these two columns of samples 0.5 s apart: it did nothing
C30_Witness ==
    /\ calls = 2
    /\ call.op = "resample"
    /\ call.arg = Period(2 * Sec)
    /\ call.stats = Str(<<"V", "x">>)
    /\ call.branch = "noop"
    /\ columns = <<"value", "max">>
    /\ timeOffset = 2 * Sec
    /\ Len(dfSorted) = 3
    /\ Len(df) < Len(dfSorted)

=============================================================================
